---- MODULE Spec2Model ----
(***************************************************************************)
(* A model of glasbey.py: the Glasbey palette builder, its colour lookup   *)
(* table with the on-disk cache, the gamut filters and the greedy          *)
(* max-min extension of the palette.                                       *)
(*                                                                         *)
(* Scaling.  The source samples every channel at MAX = 256 levels.  The    *)
(* model keeps the code's arithmetic and samples the cube at MAX levels    *)
(* per channel (2, or 3): a channel value is a level 0..MAX-1, the byte    *)
(* 255 is the level MAX-1 and the literal 256 of the index formula is MAX. *)
(* Colours in CAM02-UCS are integer triples <<J', a', b'>>: the values     *)
(* colorspacious gives for the sampled sRGB colours, rounded.  Distances   *)
(* are kept squared (the code only compares them), so the sentinel 1000    *)
(* is SENTINEL^2 and the threshold 35 is MIN_DISTANCE_TO_BLACK^2.          *)
(*                                                                         *)
(* Modelling choices.  Base colours are well-formed 3-tuples of integers   *)
(* (the len/type tests of check_validity_rbg_palette always pass); palette *)
(* files hold well-formed lines.  Requested sizes are >= 1.  The hue of    *)
(* black (a' = b' = 0) is taken as atan2(0, 0) = 0.  A row index i of the  *)
(* table follows numpy: -n <= i < n selects row i mod n, anything else is  *)
(* an IndexError.  Filtering an empty table gives an empty table.          *)
(***************************************************************************)
EXTENDS Integers, Sequences, FiniteSets, TLC

\* ---------------------------------------------------------------- bounds
MAX == 2
MaxSize == 4
MaxBase == 2

\* ------------------------------------------------------- program constants
SENTINEL == 1000
MIN_DISTANCE_TO_BLACK == 35

NUM_COLORS == MAX * MAX * MAX

None == <<>>

Min2(a, b) == IF a <= b THEN a ELSE b

\* ------------------------------------------------- colour-space collaborator
\* CAM02-UCS <<J', a', b'>> of the sRGB colours with channels in {0, 1/2, 1},
\* row (2r * 3 + 2g) * 3 + 2b + 1 for sRGB1 (r, g, b).
UCS_VALUES ==
  << <<0, 0, 0>>,     <<14, -6, -29>>,  <<31, -8, -39>>,
     <<47, -24, 23>>, <<49, -21, -7>>,  <<55, -11, -34>>,
     <<87, -32, 30>>, <<88, -31, 19>>,  <<90, -28, -9>>,
     <<30, 29, 18>>,  <<34, 27, -16>>,  <<43, 12, -36>>,
     <<54, -8, 26>>,  <<56, -1, -1>>,   <<61, 2, -32>>,
     <<90, -27, 32>>, <<90, -26, 21>>,  <<93, -24, -8>>,
     <<60, 39, 24>>,  <<62, 42, 3>>,    <<67, 36, -21>>,
     <<72, 20, 29>>,  <<73, 26, 10>>,   <<77, 28, -18>>,
     <<97, -10, 36>>, <<98, -7, 26>>,   <<100, -2, -1>> >>

\* JCh <<J, C, h>> (lightness, chroma, hue in degrees) of the same colours.
JCH_VALUES ==
  << <<0, 0, 0>>,      <<9, 58, 258>>,   <<21, 91, 258>>,
     <<34, 69, 137>>,  <<36, 39, 198>>,  <<42, 76, 252>>,
     <<80, 106, 137>>, <<81, 78, 148>>,  <<84, 59, 198>>,
     <<20, 71, 32>>,   <<23, 63, 330>>,  <<31, 85, 288>>,
     <<41, 52, 106>>,  <<43, 2, 211>>,   <<48, 66, 273>>,
     <<83, 97, 130>>,  <<85, 68, 140>>,  <<88, 47, 198>>,
     <<47, 111, 32>>,  <<49, 96, 3>>,    <<54, 98, 330>>,
     <<60, 74, 56>>,   <<62, 54, 22>>,   <<66, 68, 327>>,
     <<96, 81, 106>>,  <<97, 51, 105>>,  <<100, 3, 211>> >>

\* The channel level l of MAX levels, in halves of the sRGB1 unit.
Halves(l) == (2 * l) \div (MAX - 1)

Sample(rgb) == (Halves(rgb[1]) * 3 + Halves(rgb[2])) * 3 + Halves(rgb[3]) + 1

RGBCube == (0 .. MAX - 1) \X (0 .. MAX - 1) \X (0 .. MAX - 1)

\* cspace_convert(rgb, "sRGB255", "CAM02-UCS")
sRGB255_to_CAM02UCS(rgb) == UCS_VALUES[Sample(rgb)]

\* cspace_convert(color, "CAM02-UCS", "sRGB1"), as the channel levels of the
\* display colour (sRGB1 times MAX-1)
sRGB1_VALUES ==
  [color \in {sRGB255_to_CAM02UCS(rgb) : rgb \in RGBCube} |->
     CHOOSE rgb \in RGBCube : sRGB255_to_CAM02UCS(rgb) = color]

CAM02UCS_to_sRGB1(color) == sRGB1_VALUES[color]

\* cspace_convert(color, "CAM02-UCS", "JCh")
CAM02UCS_to_JCh(color) == JCH_VALUES[Sample(CAM02UCS_to_sRGB1(color))]

convert_palette(palette) == [i \in 1 .. Len(palette) |-> CAM02UCS_to_sRGB1(palette[i])]

\* np.linalg.norm(c - p), squared
norm2(c, p) ==
  (c[1] - p[1]) * (c[1] - p[1]) + (c[2] - p[2]) * (c[2] - p[2])
    + (c[3] - p[3]) * (c[3] - p[3])

\* ------------------------------------------------------------- colour table
\* row i (0-based) is RGB (r, g, b) with i = (r * MAX + g) * MAX + b
generate_color_table ==
  [i \in 1 .. NUM_COLORS |->
     sRGB255_to_CAM02UCS(<<(i - 1) \div (MAX * MAX), ((i - 1) \div MAX) % MAX, (i - 1) % MAX>>)]

\* the shape of the array stored under "lut"
np_shape(arr) == <<Len(arr), IF Len(arr) = 0 THEN 0 ELSE Len(arr[1])>>

cache_loads(cache) == cache.kind = "npz" /\ np_shape(cache.arr) = <<NUM_COLORS, 3>>

\* mutant of load_or_generate_color_table: the rebuilt table is not saved
load_or_generate_unsaved(cache) ==
  IF cache_loads(cache)
    THEN [colors |-> cache.arr, cache |-> cache, rebuilt |-> FALSE]
    ELSE [colors |-> generate_color_table, cache |-> cache, rebuilt |-> TRUE]

load_or_generate_color_table(cache) ==
  IF cache_loads(cache)
    THEN [colors |-> cache.arr, cache |-> cache, rebuilt |-> FALSE]
    ELSE [colors |-> generate_color_table,
          cache |-> [kind |-> "npz", arr |-> generate_color_table],
          rebuilt |-> TRUE]

\* ----------------------------------------------------------- palette files
rgb_index(rgb) == (rgb[1] * MAX + rgb[2]) * MAX + rgb[3]

load_palette(lines) == [i \in 1 .. Len(lines) |-> rgb_index(lines[i])]

\* int(round(k * 255)) of a component k given in sRGB1 units
to_byte(k) == k * (MAX - 1)

\* save_palette(..., format="byte"): one line per colour of `palette`
save_palette(palette) ==
  [i \in 1 .. Len(palette) |->
     <<to_byte(palette[i][1]), to_byte(palette[i][2]), to_byte(palette[i][3])>>]

\* --------------------------------------------------------------- validation
in_range(c) == 0 <= c /\ c <= MAX - 1

\* not 0 <= c0 <= 255 and 0 <= c1 <= 255 and 0 <= c2 <= 255
rejects_color(color) == (~in_range(color[1])) /\ in_range(color[2]) /\ in_range(color[3])

check_validity_rbg_palette(palette) ==
  \A i \in 1 .. Len(palette) : ~rejects_color(palette[i])

\* the three-way input check of __init__
input_ok(c, f) ==
  CASE c.type = "str" -> f.exists
    [] c.type = "list" -> check_validity_rbg_palette(c.base) /\ ~c.overwrite
    [] OTHER -> ~c.overwrite

\* ------------------------------------------------------------------ filters
lightness_filter(colors, range) ==
  IF range = None THEN colors
  ELSE SelectSeq(colors, LAMBDA c : CAM02UCS_to_JCh(c)[1] >= range[1]
                                     /\ CAM02UCS_to_JCh(c)[1] <= range[2])

chroma_filter(colors, range) ==
  IF range = None THEN colors
  ELSE SelectSeq(colors, LAMBDA c : CAM02UCS_to_JCh(c)[2] >= range[1]
                                     /\ CAM02UCS_to_JCh(c)[2] <= range[2])

\* mutant of hue_mask: a wrapped range is intersected like any other
hue_mask_intersect(h, range) == h >= range[1] /\ h <= range[2]

\* the boolean mask of the hue filter
hue_mask(h, range) ==
  IF range[1] > range[2]
    THEN h >= range[1] \/ h <= range[2]
    ELSE h >= range[1] /\ h <= range[2]

hue_filter(colors, range) ==
  IF range = None THEN colors
  ELSE SelectSeq(colors, LAMBDA c : hue_mask(CAM02UCS_to_JCh(c)[3], range))

\* the colour the distances to black are taken from: self.colors[0, :]
black_anchor(colors) == colors[1]

no_black_filter(colors) ==
  SelectSeq(colors, LAMBDA c :
    norm2(c, black_anchor(colors)) > MIN_DISTANCE_TO_BLACK * MIN_DISTANCE_TO_BLACK)

range_filters(colors, c) ==
  hue_filter(chroma_filter(lightness_filter(colors, c.lightness_range), c.chroma_range),
             c.hue_range)

\* --------------------------------------------------------- greedy selection
update_distances(distances, colors, color) ==
  [i \in 1 .. Len(colors) |-> Min2(distances[i], norm2(colors[i], color))]

\* np.argmax: the first index holding the maximum
argmax(distances) ==
  CHOOSE i \in 1 .. Len(distances) :
    /\ \A j \in 1 .. Len(distances) : distances[j] <= distances[i]
    /\ \A j \in 1 .. i - 1 : distances[j] < distances[i]

\* for i in range(len(self.palette) - 1): update_distances(self.colors, self.palette[i])
RECURSIVE fold_palette(_, _, _, _)
fold_palette(distances, colors, palette, i) ==
  IF i > Len(palette) - 1 THEN distances
  ELSE fold_palette(update_distances(distances, colors, palette[i]), colors, palette, i + 1)

\* mutant of initial_distances: the colours already in the palette are not folded in
initial_distances_unfolded(colors, palette) ==
  [i \in 1 .. Len(colors) |-> SENTINEL * SENTINEL]

\* distances = np.ones(...) * 1000, then the loop over the palette but its last colour
initial_distances(colors, palette) ==
  fold_palette([i \in 1 .. Len(colors) |-> SENTINEL * SENTINEL], colors, palette, 1)

\* mutant of select_step: the selected colour is put in front of the palette
select_step_prepend(palette, distances, colors) ==
  LET d == update_distances(distances, colors, palette[Len(palette)])
  IN  [palette |-> <<colors[argmax(d)]>> \o palette,
       distances |-> d,
       pick |-> argmax(d)]

\* one pass of the while loop: fold in the last colour, append the argmax
select_step(palette, distances, colors) ==
  LET d == update_distances(distances, colors, palette[Len(palette)])
  IN  [palette |-> Append(palette, colors[argmax(d)]),
       distances |-> d,
       pick |-> argmax(d)]

\* while len(self.palette) < size
RECURSIVE build_loop(_, _, _, _, _)
build_loop(palette, distances, colors, size, trace) ==
  IF Len(palette) >= size THEN [palette |-> palette, trace |-> trace]
  ELSE LET s == select_step(palette, distances, colors)
       IN  build_loop(s.palette, s.distances, colors, size,
                      Append(trace, [before |-> palette, distances |-> s.distances,
                                     pick |-> s.pick]))

extend_palette(palette, colors, size) ==
  build_loop(palette, initial_distances(colors, palette), colors, size, <<>>)

\* -------------------------------------------------------------------- state
VARIABLES
  cache,    \* the LUT file: [kind, arr], kind "missing", "corrupt" or "npz"
  file,     \* the base-palette file: [exists, lines]
  cfg,      \* the arguments of the latest Glasbey(...) call
  status,   \* "none", "ok", or the exception __init__ raised
  stage,    \* where __init__ raised: "check", "seed", "no_black"; "done" if it did not
  given,    \* the base colours __init__ was given: the list, or the lines of the file
  rebuilt,  \* that load rebuilt the table and wrote the cache
  saves,    \* how many times the LUT file has been written (np.savez_compressed)
  table,    \* what load_or_generate_color_table returned
  colors,   \* self.colors, the candidate pool after the filters
  seed,     \* self.palette as __init__ left it
  palette,  \* self.palette
  last      \* the latest generate_palette call: arguments, work done, outcome

vars == <<cache, file, cfg, status, stage, given, rebuilt, saves, table, colors, seed, palette, last>>

\* ------------------------------------------------------------------- inputs
White == <<MAX - 1, MAX - 1, MAX - 1>>

ValidColors == {<<0, 0, 0>>, <<MAX - 1, 0, 0>>}

InvalidColors ==
  {<<MAX, 0, 0>>, <<-1, 0, 0>>, <<0, MAX, 0>>, <<0, 0, -1>>, <<MAX, MAX, 0>>, <<MAX, 0, -1>>}

RECURSIVE SeqsUpTo(_, _)
SeqsUpTo(S, n) ==
  IF n = 0 THEN {<<>>}
  ELSE LET shorter == SeqsUpTo(S, n - 1)
       IN  shorter \cup {Append(q, x) : q \in {r \in shorter : Len(r) = n - 1}, x \in S}

ValidLists == SeqsUpTo(ValidColors, MaxBase)

InvalidLists ==
  {<<bad>> : bad \in InvalidColors}
    \cup {<<<<MAX - 1, 0, 0>>, bad>> : bad \in InvalidColors}
    \cup {<<bad, <<MAX - 1, 0, 0>>>> : bad \in InvalidColors}

Bases ==
  {[type |-> "NoneType", base |-> <<>>], [type |-> "str", base |-> <<>>]}
    \cup {[type |-> "list", base |-> b] : b \in ValidLists \cup InvalidLists}

LightnessRanges == {None, <<10, 100>>, <<0, 50>>, <<101, 120>>}
ChromaRanges == {None, <<10, 120>>}
HueRanges == {None, <<315, 45>>, <<45, 315>>}

Config(b, ow, nb, lr, cr, hr) ==
  [type |-> b.type, base |-> b.base, overwrite |-> ow, no_black |-> nb,
   lightness_range |-> lr, chroma_range |-> cr, hue_range |-> hr]

\* every base with every overwrite / no_black choice, unfiltered; and every
\* combination of filters over a few bases
Configs ==
  {Config(b, ow, nb, None, None, None) : b \in Bases, ow \in BOOLEAN, nb \in BOOLEAN}
    \cup {Config(b, FALSE, nb, lr, cr, hr) :
            b \in {x \in Bases : x.type # "list" \/ x.base = <<<<MAX - 1, 0, 0>>>>},
            nb \in BOOLEAN, lr \in LightnessRanges, cr \in ChromaRanges, hr \in HueRanges}

CacheStates ==
  {[kind |-> "missing", arr |-> <<>>],
   [kind |-> "corrupt", arr |-> <<>>],
   [kind |-> "npz", arr |-> generate_color_table],
   [kind |-> "npz", arr |-> <<>>],
   [kind |-> "npz", arr |-> SubSeq(generate_color_table, 1, NUM_COLORS - 1)],
   [kind |-> "npz", arr |-> [i \in 1 .. NUM_COLORS |-> SubSeq(generate_color_table[i], 1, 2)]]}

\* palette files as the format has them: n lines of components in range
FileLines(n) == [i \in 1 .. n |-> IF i % 2 = 1 THEN <<MAX - 1, 0, 0>> ELSE <<0, 0, 0>>]

FileStates ==
  {[exists |-> FALSE, lines |-> <<>>]}
    \cup {[exists |-> TRUE, lines |-> FileLines(n)] : n \in 0 .. MaxBase}

NoConfig == Config([type |-> "NoneType", base |-> <<>>], FALSE, FALSE, None, None, None)

NoCall ==
  [size |-> 0, raised |-> "", ret |-> <<>>, extended |-> FALSE, updates |-> 0,
   trace |-> <<>>, wrote |-> FALSE]

\* ------------------------------------------------------------------ actions
Init ==
  /\ cache \in CacheStates
  /\ file \in FileStates
  /\ cfg = NoConfig
  /\ status = "none"
  /\ stage = ""
  /\ given = <<>>
  /\ rebuilt = FALSE
  /\ saves = 0
  /\ table = <<>>
  /\ colors = <<>>
  /\ seed = <<>>
  /\ palette = <<>>
  /\ last = NoCall

\* the indices __init__ seeds the palette from
seed_indices(c, f) ==
  IF c.type = "str" THEN load_palette(f.lines)
  ELSE IF c.type = "list" /\ Len(c.base) > 0
    THEN [i \in 1 .. Len(c.base) |-> rgb_index(c.base[i])]
    ELSE <<-1>>

\* numpy row indexing: -n .. n-1 are rows, anything else is an IndexError
index_ok(i, n) == -n <= i /\ i < n

row(arr, i) == arr[(i % Len(arr)) + 1]

\* __init__ got as far as load_or_generate_color_table
Loaded == stage \in {"seed", "no_black", "done"}

NoBuilder(exc, at) ==
  /\ status' = exc
  /\ stage' = at
  /\ colors' = <<>>
  /\ seed' = <<>>
  /\ palette' = <<>>

\* Glasbey.__init__
Construct(c) ==
  /\ status = "none"
  /\ cfg' = c
  /\ last' = NoCall
  /\ file' = file
  /\ IF ~input_ok(c, file)
       THEN /\ NoBuilder("AssertionError", "check")
            /\ given' = <<>>
            /\ rebuilt' = FALSE
            /\ saves' = saves
            /\ table' = <<>>
            /\ cache' = cache
       ELSE LET ld == load_or_generate_color_table(cache)
                idx == seed_indices(c, file)
                ranged == range_filters(ld.colors, c)
            IN  /\ given' = IF c.type = "str" THEN file.lines ELSE c.base
                /\ rebuilt' = ld.rebuilt
                /\ saves' = IF ld.cache # cache THEN saves + 1 ELSE saves
                /\ table' = ld.colors
                /\ cache' = ld.cache
                /\ IF \E i \in 1 .. Len(idx) : ~index_ok(idx[i], Len(ld.colors))
                     THEN NoBuilder("IndexError", "seed")     \* self.colors[i, :]
                     ELSE IF c.no_black /\ Len(ranged) = 0
                       THEN NoBuilder("IndexError", "no_black")   \* self.colors[0, :]
                       ELSE /\ status' = "ok"
                            /\ stage' = "done"
                            /\ seed' = [i \in 1 .. Len(idx) |-> row(ld.colors, idx[i])]
                            /\ palette' = [i \in 1 .. Len(idx) |-> row(ld.colors, idx[i])]
                            /\ colors' = IF c.no_black THEN no_black_filter(ranged) ELSE ranged

\* mutant of long_enough: a request for exactly the current length extends
long_enough_strict(size, pal) == size < Len(pal)

\* if size <= len(self.palette)
long_enough(size, pal) == size <= Len(pal)

Raise(size, exc) ==
  /\ last' = [NoCall EXCEPT !.size = size, !.raised = exc]
  /\ UNCHANGED <<palette, file>>

\* Glasbey.generate_palette
GeneratePalette(size) ==
  /\ status = "ok"
  /\ UNCHANGED <<cache, cfg, status, stage, given, rebuilt, saves, table, colors, seed>>
  /\ IF long_enough(size, palette)
       THEN /\ last' = [NoCall EXCEPT !.size = size,
                                      !.ret = convert_palette(SubSeq(palette, 1, size))]
            /\ UNCHANGED <<palette, file>>
       ELSE IF Len(palette) = 0
         THEN Raise(size, "IndexError")       \* self.palette[-1] of an empty list
         ELSE IF Len(colors) = 0
           THEN Raise(size, "ValueError")     \* np.argmax of an empty array
           ELSE LET ext == extend_palette(palette, colors, size)
                IN  /\ palette' = ext.palette
                    /\ file' = IF cfg.overwrite
                                 THEN [exists |-> TRUE, lines |-> save_palette(ext.palette)]
                                 ELSE file
                    /\ last' = [size |-> size, raised |-> "",
                                ret |-> convert_palette(SubSeq(ext.palette, 1, size)),
                                extended |-> TRUE,
                                updates |-> (Len(palette) - 1) + (size - Len(palette)),
                                trace |-> ext.trace,
                                wrote |-> cfg.overwrite]

\* the builder (or the exception __init__ raised) is dropped; the LUT file and
\* the base-palette file stay as they are for the next builder
Discard ==
  /\ status # "none"
  /\ cfg' = NoConfig
  /\ status' = "none"
  /\ stage' = ""
  /\ given' = <<>>
  /\ rebuilt' = FALSE
  /\ table' = <<>>
  /\ colors' = <<>>
  /\ seed' = <<>>
  /\ palette' = <<>>
  /\ last' = NoCall
  /\ UNCHANGED <<cache, file, saves>>

Next ==
  \/ \E c \in Configs : Construct(c)
  \/ \E size \in 1 .. MaxSize : GeneratePalette(size)
  \/ Discard

Spec == Init /\ [][Next]_vars

\* ================================================================== claims
IsPrefix(p, q) == Len(p) <= Len(q) /\ \A i \in 1 .. Len(p) : p[i] = q[i]

\* a step of generate_palette on a live builder
CallStep == status = "ok" /\ status' = "ok"

\* C1: prefix stability.  Every generate_palette call leaves the old palette
\* as a prefix of the new one (colours are only appended), and a call that
\* returns hands back the first `size` palette entries; so a palette returned
\* earlier is a prefix of every longer one returned later.
C1_PrefixStability ==
  [][CallStep =>
      /\ IsPrefix(palette, palette')
      /\ IsPrefix(seed, palette')
      /\ (last'.raised = "" =>
            last'.ret = convert_palette(SubSeq(palette', 1, last'.size)))
      /\ (last.size > 0 /\ last.raised = "" /\ last'.raised = "" =>
            IF last.size <= last'.size
              THEN IsPrefix(last.ret, last'.ret)
              ELSE IsPrefix(last'.ret, last.ret))]_vars

\* a second extending call has appended to what an earlier call had appended
C1_Witness ==
  /\ status = "ok"
  /\ last.extended
  /\ Len(last.trace) >= 1
  /\ Len(last.trace[1].before) > Len(seed)

\* C2: a call with size <= len(palette) is a no-op: it returns the first
\* `size` entries, updates no distance, selects nothing, leaves the palette
\* and the base-palette file alone; a repeated call with the same size
\* returns the same palette and does no selection work.
C2_NoOpWhenLongEnough ==
  [][CallStep =>
      /\ (last'.size <= Len(palette) =>
            /\ palette' = palette
            /\ file' = file
            /\ last'.raised = ""
            /\ last'.ret = convert_palette(SubSeq(palette, 1, last'.size))
            /\ last'.updates = 0
            /\ last'.trace = <<>>
            /\ ~last'.extended
            /\ ~last'.wrote)
      /\ (last.size > 0 /\ last.raised = "" /\ last'.size = last.size =>
            /\ last'.ret = last.ret
            /\ last'.updates = 0
            /\ last'.trace = <<>>
            /\ ~last'.wrote
            /\ palette' = palette
            /\ file' = file)]_vars

\* a no-op call on an overwriting builder whose palette an earlier call extended
C2_Witness ==
  /\ status = "ok"
  /\ cfg.overwrite
  /\ last.size > 0
  /\ ~last.extended
  /\ last.raised = ""
  /\ Len(palette) > Len(seed)
  /\ last.size = Len(palette)

\* C3: a list base palette with any component of any colour outside the byte
\* range, and a request to overwrite a base palette that is no file, make
\* __init__ fail at its input check, before the colour table is loaded.
BadComponent(c) ==
  /\ c.type = "list"
  /\ \E i \in 1 .. Len(c.base) : \E k \in 1 .. 3 :
       c.base[i][k] < 0 \/ c.base[i][k] > MAX - 1

BadOverwrite(c) == c.overwrite /\ c.type # "str"

C3_EagerRejection ==
  (BadComponent(cfg) \/ BadOverwrite(cfg)) =>
    status = "AssertionError" /\ stage = "check" /\ ~Loaded

\* C4: after an extending call on an overwriting builder the file holds one
\* line per palette colour, in order, each the colour's display RGB in byte
\* range, and reading it back through the index encoding gives the palette.
C4_OverwriteRoundTrip ==
  (status = "ok" /\ last.wrote) =>
    /\ file.exists
    /\ Len(file.lines) = Len(palette)
    /\ file.lines = convert_palette(palette)
    /\ \A i \in 1 .. Len(file.lines) :
         /\ \A k \in 1 .. 3 : in_range(file.lines[i][k])
         /\ table[rgb_index(file.lines[i]) + 1] = palette[i]

\* C5: the returned palette begins with the base colours as given, in order
\* (white when no base colour was given), whatever filters are configured.
C5_BeginsWithSeed ==
  (status = "ok" /\ last.size > 0 /\ last.raised = "") =>
    IF Len(given) > 0
      THEN \A i \in 1 .. Min2(last.size, Len(given)) : last.ret[i] = given[i]
      ELSE last.ret[1] = White

\* C6: with no_black the pool is exactly the range-filtered colours farther
\* than the threshold from pure black, the full table's row 0; so no appended
\* colour is within the threshold of black.
FarFromBlack(c) ==
  norm2(c, table[1]) > MIN_DISTANCE_TO_BLACK * MIN_DISTANCE_TO_BLACK

C6_NoBlackAnchoredAtBlack ==
  (status = "ok" /\ cfg.no_black) =>
    /\ colors = SelectSeq(range_filters(table, cfg), FarFromBlack)
    /\ \A i \in Len(seed) + 1 .. Len(palette) : FarFromBlack(palette[i])

\* C10: whatever pool the filters leave, __init__ does not raise on it, and a
\* call for more colours than the (non-empty) palette holds returns exactly
\* `size` colours without raising.
C10_NoCrashOnExhaustion ==
  /\ stage # "no_black"
  /\ (status = "ok" /\ last.size > 0 /\ Len(seed) > 0) =>
       last.raised = "" /\ Len(last.ret) = last.size

\* C7: the hue filter keeps, of the colours the lightness and chroma filters
\* left, exactly those with hue_min <= h <= hue_max, or, when hue_min >
\* hue_max, those with h >= hue_min or h <= hue_max; with (315, 45) hues 350
\* and 10 are kept and 180 is not; an unset range removes nothing.
HueOf(c) == CAM02UCS_to_JCh(c)[3]

InHueRange(h, lo, hi) ==
  IF lo > hi THEN h >= lo \/ h <= hi ELSE lo <= h /\ h <= hi

BeforeHue == chroma_filter(lightness_filter(table, cfg.lightness_range), cfg.chroma_range)

KeptByClaim(c) == InHueRange(HueOf(c), cfg.hue_range[1], cfg.hue_range[2])

C7_HueWraparound ==
  (status = "ok" /\ ~cfg.no_black) =>
    /\ cfg.hue_range = None => colors = BeforeHue
    /\ cfg.hue_range # None =>
         /\ colors = SelectSeq(BeforeHue, KeptByClaim)
         /\ hue_mask(350, <<315, 45>>)
         /\ hue_mask(10, <<315, 45>>)
         /\ ~hue_mask(180, <<315, 45>>)

\* a wrapped range that keeps a colour on each side of 0 and removes another
C7_Witness ==
  /\ status = "ok"
  /\ ~cfg.no_black
  /\ cfg.hue_range = <<315, 45>>
  /\ \E i \in 1 .. Len(colors) : HueOf(colors[i]) >= 315
  /\ \E i \in 1 .. Len(colors) : HueOf(colors[i]) <= 45
  /\ \E i \in 1 .. Len(BeforeHue) : HueOf(BeforeHue[i]) > 45 /\ HueOf(BeforeHue[i]) < 315
  /\ Len(colors) < Len(BeforeHue)

\* C8: whatever the cache holds, a load returns a table of NUM_COLORS rows;
\* an invalid cache is rebuilt and overwritten with the rebuilt table, so the
\* next load finds it valid and does not rebuild; a valid cache is returned
\* as it is and is not rewritten.
ValidCache(c) ==
  /\ c.kind = "npz"
  /\ Len(c.arr) = NUM_COLORS
  /\ \A i \in 1 .. Len(c.arr) : Len(c.arr[i]) = 3

LoadStep == status = "none" /\ stage' \in {"seed", "no_black", "done"}

C8_CacheRecovered ==
  [][/\ (status = "none" /\ status' # "none" /\ stage' # "check" => LoadStep)
     /\ (LoadStep =>
           /\ Len(table') = NUM_COLORS
           /\ ValidCache(cache')
           /\ cache'.arr = table'
           /\ rebuilt' = ~ValidCache(cache)
           /\ saves' = IF ValidCache(cache) THEN saves ELSE saves + 1
           /\ (ValidCache(cache) => cache' = cache /\ table' = cache.arr)
           /\ (~ValidCache(cache) => table' = generate_color_table))
     /\ (~LoadStep => cache' = cache /\ saves' = saves)]_vars

\* a load that found valid the cache an earlier load had rebuilt and saved
C8_Witness ==
  /\ Loaded
  /\ ~rebuilt
  /\ saves = 1
  /\ ValidCache(cache)
  /\ Len(table) = NUM_COLORS

\* C9: at every selection, in the first extending call and in later ones,
\* each candidate's distance is min(1000, its least distance to a colour of
\* the palette as it stands), the pick is the first candidate holding the
\* maximum, and that candidate's colour is what is appended; so a palette
\* grown over several calls is the palette one call grows from the seed.
RECURSIVE LeastDistance(_, _, _)
LeastDistance(c, pal, n) ==
  IF n = 0 THEN SENTINEL * SENTINEL
  ELSE Min2(norm2(c, pal[n]), LeastDistance(c, pal, n - 1))

ExactSelection(t) ==
  /\ Len(t.distances) = Len(colors)
  /\ \A c \in 1 .. Len(colors) :
       t.distances[c] = LeastDistance(colors[c], t.before, Len(t.before))
  /\ \A c \in 1 .. Len(colors) :
       /\ LeastDistance(colors[c], t.before, Len(t.before))
            <= LeastDistance(colors[t.pick], t.before, Len(t.before))
       /\ c < t.pick =>
            LeastDistance(colors[c], t.before, Len(t.before))
              < LeastDistance(colors[t.pick], t.before, Len(t.before))

C9_GreedyExact ==
  status = "ok" =>
    /\ \A k \in 1 .. Len(last.trace) :
         /\ ExactSelection(last.trace[k])
         /\ Append(last.trace[k].before, colors[last.trace[k].pick])
              = SubSeq(palette, 1, Len(last.trace[k].before) + 1)
    /\ last.extended =>
         Len(last.trace) >= 1 /\ Len(last.trace[1].before) + Len(last.trace) = Len(palette)
    /\ (Len(seed) > 0 /\ Len(colors) > 0) =>
         palette = extend_palette(seed, colors, Len(palette)).palette

\* a later call selects with several base colours and an earlier call's
\* colours in the palette, and some selection breaks a tie
C9_Witness ==
  /\ status = "ok"
  /\ last.extended
  /\ Len(seed) >= 2
  /\ Len(last.trace[1].before) > Len(seed)
  /\ \E k \in 1 .. Len(last.trace) : \E c \in 1 .. Len(colors) :
       c # last.trace[k].pick /\ last.trace[k].distances[c] = last.trace[k].distances[last.trace[k].pick]

====
